---- MODULE Spec2Model ----
(***************************************************************************)
(* Model of tractseg/libs/DirectionMerger.py: the three-direction          *)
(* inference runner (get_seg_single_img_3_directions) and the two fusion   *)
(* reducers (mean_fusion, majority_fusion).                                *)
(*                                                                         *)
(* Numbers are exact rationals [num, den] in lowest terms with den > 0.    *)
(* An ndarray is a record [shape, flat]: its shape tuple and its entries   *)
(* in C (row-major) order.                                                 *)
(***************************************************************************)
EXTENDS Integers, Sequences, FiniteSets, TLC

(* ---------------------------- bounds ----------------------------------- *)
MaxVal == 2
MaxThrNum == 4
MaxVox == 2
MaxLabel == 2

(* ------------------------- exact arithmetic ---------------------------- *)
RECURSIVE GCD(_, _)
GCD(a, b) == IF b = 0 THEN a ELSE GCD(b, a % b)

Abs(x) == IF x < 0 THEN 0 - x ELSE x

Rat(n, d) ==
    LET g == GCD(Abs(n), d)
    IN  [num |-> (IF n < 0 THEN 0 - (Abs(n) \div g) ELSE n \div g), den |-> d \div g]

RatAdd(a, b) == Rat(a.num * b.den + b.num * a.den, a.den * b.den)

RatDivInt(a, k) == Rat(a.num, a.den * k)

GE(a, b) == a.num * b.den >= b.num * a.den

LT(a, b) == a.num * b.den < b.num * a.den

Zero == Rat(0, 1)

One == Rat(1, 1)

Two == Rat(2, 1)

(* ------------------------------ ndarrays ------------------------------- *)
RECURSIVE Size(_)
Size(shape) == IF shape = <<>> THEN 1 ELSE Head(shape) * Size(Tail(shape))

NoVolume == [shape |-> <<>>, flat |-> <<>>]

\* np.reshape: reinterprets the flat C-order data; fails only on a size mismatch
reshape(a, new_shape) ==
    IF Size(new_shape) = Len(a.flat)
    THEN [ok |-> TRUE, val |-> [shape |-> new_shape, flat |-> a.flat]]
    ELSE [ok |-> FALSE, val |-> NoVolume]

\* np.concatenate((a, b, c), axis=4) of three arrays with a trailing axis of 1
concatenate(a, b, c) ==
    IF a.shape = b.shape /\ b.shape = c.shape
    THEN [ok |-> TRUE,
          val |-> [shape |-> SubSeq(a.shape, 1, 4) \o <<3>>,
                   flat |-> [k \in 1..(3 * Len(a.flat)) |->
                              <<a, b, c>>[((k - 1) % 3) + 1].flat[((k - 1) \div 3) + 1]]]]
    ELSE [ok |-> FALSE, val |-> NoVolume]

\* entry (i, d) of a stacked volume: flattened (x,y,z,c) index i, direction d
At(img, i, d) == img.flat[img.shape[5] * (i - 1) + d]

NVox(img) == Size(SubSeq(img.shape, 1, 4))

\* img.mean(axis=4)
mean_axis4_mut(img) ==
    [shape |-> SubSeq(img.shape, 1, 4),
     flat  |-> [i \in 1..NVox(img) |->
                 RatDivInt(RatAdd(RatAdd(At(img, i, 1), At(img, i, 2)), At(img, i, 3)),
                           Len(SubSeq(img.shape, 1, 4)))]]

mean_axis4(img) ==
    [shape |-> SubSeq(img.shape, 1, 4),
     flat  |-> [i \in 1..NVox(img) |->
                 RatDivInt(RatAdd(RatAdd(At(img, i, 1), At(img, i, 2)), At(img, i, 3)),
                           img.shape[5])]]

\* probs_combined.sum(axis=4)
sum_axis4(img) ==
    [shape |-> SubSeq(img.shape, 1, 4),
     flat  |-> [i \in 1..NVox(img) |->
                 RatAdd(RatAdd(At(img, i, 1), At(img, i, 2)), At(img, i, 3))]]

\* boolean masks  arr >= t  and  arr < t
GEMask(arr, t) == [i \in 1..Len(arr.flat) |-> GE(arr.flat[i], t)]

LTMask(arr, t) == [i \in 1..Len(arr.flat) |-> LT(arr.flat[i], t)]

\* arr[mask] = v
MaskedAssign(arr, mask, v) ==
    [shape |-> arr.shape,
     flat  |-> [i \in 1..Len(arr.flat) |-> IF mask[i] THEN v ELSE arr.flat[i]]]

\* conversion of one value to np.int16: truncate toward zero, wrap to 16 bits
ToInt16(r) ==
    LET q == IF r.num < 0 THEN 0 - (Abs(r.num) \div r.den) ELSE r.num \div r.den
    IN  Rat(((q + 32768) % 65536) - 32768, 1)

astype_int16(arr) ==
    [shape |-> arr.shape, flat |-> [i \in 1..Len(arr.flat) |-> ToInt16(arr.flat[i])]]

zeros(shape) == [shape |-> shape, flat |-> [i \in 1..Size(shape) |-> Zero]]

(* --------------------------- fusion reducers --------------------------- *)
mean_fusion_mut(threshold, img, probs) ==
    LET probs_mean == mean_axis4(img)
        m1 == MaskedAssign(probs_mean, GEMask(probs_mean, threshold), One)
        m2 == MaskedAssign(m1, LTMask(m1, threshold), Zero)
    IN  IF probs THEN astype_int16(m2) ELSE probs_mean

mean_fusion(threshold, img, probs) ==
    LET probs_mean == mean_axis4(img)
        m1 == MaskedAssign(probs_mean, GEMask(probs_mean, threshold), One)
        m2 == MaskedAssign(m1, LTMask(m1, threshold), Zero)
    IN  IF ~probs THEN astype_int16(m2) ELSE probs_mean

\* the caller's array after the two in-place assignments of majority_fusion
majority_binarize(threshold, img) ==
    LET i1 == MaskedAssign(img, GEMask(img, threshold), One)
    IN  MaskedAssign(i1, LTMask(i1, threshold), Zero)

majority_fusion(threshold, img, probs) ==
    LET probs_combined == astype_int16(majority_binarize(threshold, img))
        probs_sum == sum_axis4(probs_combined)
        r0 == zeros(probs_sum.shape)
        r1 == MaskedAssign(r0, GEMask(probs_sum, Two), One)
        r2 == MaskedAssign(r1, LTMask(probs_sum, Two), Zero)
    IN  astype_int16(r2)

(* ------------------------------- state --------------------------------- *)
VARIABLES
    pc,                   \* "loop" | "infer" | "stack" | "done" | "failed" | "fusion"
    idx,                  \* 1-based position in directions of the current iteration
    HP,                   \* the caller's configuration object
    HP_before,            \* history: the configuration as the caller passed it
    subject, data,        \* the two data-source arguments
    scale_to_world_shape,
    prob_slices,          \* list of per-direction probability volumes
    img_y,                \* last reference-label volume bound by the loop (0: unbound)
    calls,                \* history: one record per invocation of the inference collaborator
    returned,             \* history: label returned by each completed invocation
    raised,               \* history: the error raised by the inference collaborator ("": none)
    error,                \* the error that reached the caller ("": none)
    ret_probs, ret_label, \* the pair returned to the caller (NoVolume, 0: nothing returned)
    threshold, probs,     \* arguments of the fusion calls
    img,                  \* the caller's stacked volume
    mean_called, mean_arg, mean_res,
    maj_called, maj_arg, maj_res

runner_vars == <<pc, idx, HP, HP_before, subject, data, scale_to_world_shape, prob_slices, img_y,
                 calls, returned, raised, error, ret_probs, ret_label>>

fusion_vars == <<threshold, probs, img, mean_called, mean_arg, mean_res,
                 maj_called, maj_arg, maj_res>>

vars == <<runner_vars, fusion_vars>>

(* ------------------------------ inputs --------------------------------- *)
PyNone == "None"

\* Python truth value of a None-or-string argument
Truthy(v) == v # PyNone /\ v # ""

Values == {Rat(n, 1) : n \in 0..MaxVal}

Thresholds == {Rat(n, 2) : n \in 0..MaxThrNum}

Labels == 1..MaxLabel

Subjects == {PyNone, "", "subj"}

Datas == {PyNone, "array"}

ProbShapes == {<<2, 3, 1, 1>>, <<3, 2, 1, 1>>, <<2, 2, 1, 1>>}

\* what the inference collaborator may return as img_probs
ProbVolumes ==
    {[shape |-> s, flat |-> [i \in 1..Size(s) |-> Rat((i * k) % (MaxVal + 1), 1)]] :
        s \in ProbShapes, k \in 0..1}

InferenceErrors == {"RuntimeError", "IOError"}

StackedVolumes ==
    UNION {{[shape |-> <<n, 1, 1, 1, 3>>, flat |-> f] : f \in [1..(3 * n) -> Values]} :
              n \in 1..MaxVox}

(* ------------------- get_seg_single_img_3_directions ------------------- *)
directions == <<"x", "y", "z">>

ChooseAccessor_mut(subj, dat) ==
    IF Truthy(dat) THEN "DataManagerSingleSubjectByFile" ELSE "DataManagerSingleSubjectById"

\* if subject: ... ById(HP, subject=subject) else: ... ByFile(HP, data=data)
ChooseAccessor(subj, dat) ==
    IF Truthy(subj) THEN "DataManagerSingleSubjectById" ELSE "DataManagerSingleSubjectByFile"

RunnerIdleFusion ==
    /\ threshold = Zero /\ probs = TRUE /\ img = NoVolume
    /\ mean_called = FALSE /\ mean_arg = NoVolume /\ mean_res = NoVolume
    /\ maj_called = FALSE /\ maj_arg = NoVolume /\ maj_res = NoVolume

InitRunner ==
    /\ pc = "loop" /\ idx = 1
    /\ HP \in [SLICE_DIRECTION : {"x", "y", "z"}, REST : {"hp1", "hp2"}]
    /\ HP_before = HP
    /\ subject \in Subjects /\ data \in Datas
    /\ scale_to_world_shape \in BOOLEAN
    /\ prob_slices = <<>> /\ img_y = 0
    /\ calls = <<>> /\ returned = <<>> /\ raised = "" /\ error = ""
    /\ ret_probs = NoVolume /\ ret_label = 0
    /\ RunnerIdleFusion

\* loop head up to the call of trainerSingle.get_seg_single_img
BeginIteration_mut ==
    /\ pc = "loop" /\ idx <= Len(directions)
    /\ HP' = HP
    /\ calls' = Append(calls, [direction |-> directions[idx],
                               hp_dir    |-> HP'.SLICE_DIRECTION,
                               accessor  |-> ChooseAccessor(subject, data),
                               probs     |-> TRUE,
                               scale     |-> scale_to_world_shape])
    /\ pc' = "infer"
    /\ UNCHANGED <<idx, HP_before, subject, data, scale_to_world_shape, prob_slices, img_y,
                   returned, raised, error, ret_probs, ret_label, fusion_vars>>

BeginIteration ==
    /\ pc = "loop" /\ idx <= Len(directions)
    /\ HP' = [HP EXCEPT !.SLICE_DIRECTION = directions[idx]]
    /\ calls' = Append(calls, [direction |-> directions[idx],
                               hp_dir    |-> HP'.SLICE_DIRECTION,
                               accessor  |-> ChooseAccessor(subject, data),
                               probs     |-> TRUE,
                               scale     |-> scale_to_world_shape])
    /\ pc' = "infer"
    /\ UNCHANGED <<idx, HP_before, subject, data, scale_to_world_shape, prob_slices, img_y,
                   returned, raised, error, ret_probs, ret_label, fusion_vars>>

\* the collaborator returns (img_probs, img_y); the loop appends and advances
InferReturn_mut ==
    /\ pc = "infer"
    /\ \E vol \in ProbVolumes, lab \in Labels :
          /\ prob_slices' = Append(prob_slices, vol)
          /\ img_y' = IF img_y = 0 THEN lab ELSE img_y
          /\ returned' = Append(returned, lab)
    /\ idx' = idx + 1
    /\ pc' = IF idx = Len(directions) THEN "stack" ELSE "loop"
    /\ UNCHANGED <<HP, HP_before, subject, data, scale_to_world_shape, calls, raised, error,
                   ret_probs, ret_label, fusion_vars>>

InferReturn ==
    /\ pc = "infer"
    /\ \E vol \in ProbVolumes, lab \in Labels :
          /\ prob_slices' = Append(prob_slices, vol)
          /\ img_y' = lab
          /\ returned' = Append(returned, lab)
    /\ idx' = idx + 1
    /\ pc' = IF idx = Len(directions) THEN "stack" ELSE "loop"
    /\ UNCHANGED <<HP, HP_before, subject, data, scale_to_world_shape, calls, raised, error,
                   ret_probs, ret_label, fusion_vars>>

\* the collaborator raises; nothing in the runner catches it
InferRaise_mut ==
    /\ pc = "infer"
    /\ \E e \in InferenceErrors : raised' = e
    /\ idx' = idx + 1
    /\ pc' = IF idx = Len(directions) THEN "failed" ELSE "loop"
    /\ error' = IF idx = Len(directions) THEN raised' ELSE error
    /\ UNCHANGED <<HP, HP_before, subject, data, scale_to_world_shape, prob_slices, img_y, calls,
                   returned, ret_probs, ret_label, fusion_vars>>

InferRaise ==
    /\ pc = "infer"
    /\ \E e \in InferenceErrors : raised' = e /\ error' = e
    /\ pc' = "failed"
    /\ UNCHANGED <<idx, HP, HP_before, subject, data, scale_to_world_shape, prob_slices, img_y, calls,
                   returned, ret_probs, ret_label, fusion_vars>>

\* unpack, reshape x3, concatenate, return
Stack ==
    /\ pc = "stack"
    /\ LET probs_x == prob_slices[1]
           probs_y == prob_slices[2]
           probs_z == prob_slices[3]
           new_shape == probs_x.shape \o <<1>>
           rx == reshape(probs_x, new_shape)
           ry == reshape(probs_y, new_shape)
           rz == reshape(probs_z, new_shape)
           cc == concatenate(rx.val, ry.val, rz.val)
       IN  IF rx.ok /\ ry.ok /\ rz.ok /\ cc.ok
           THEN /\ ret_probs' = cc.val /\ ret_label' = img_y
                /\ pc' = "done" /\ error' = error
           ELSE /\ error' = "ValueError" /\ pc' = "failed"
                /\ UNCHANGED <<ret_probs, ret_label>>
    /\ UNCHANGED <<idx, HP, HP_before, subject, data, scale_to_world_shape, prob_slices, img_y, calls,
                   returned, raised, fusion_vars>>

NextRunner == BeginIteration \/ InferReturn \/ InferRaise \/ Stack

SpecRunner == InitRunner /\ [][NextRunner]_vars

(* ------------------------- calls of the reducers ----------------------- *)
FusionIdleRunner ==
    /\ pc = "fusion" /\ idx = 1
    /\ HP = [SLICE_DIRECTION |-> "z", REST |-> "hp1"]
    /\ HP_before = HP
    /\ subject = PyNone /\ data = PyNone /\ scale_to_world_shape = TRUE
    /\ prob_slices = <<>> /\ img_y = 0
    /\ calls = <<>> /\ returned = <<>> /\ raised = "" /\ error = ""
    /\ ret_probs = NoVolume /\ ret_label = 0

InitFusion ==
    /\ FusionIdleRunner
    /\ threshold \in Thresholds /\ probs \in BOOLEAN
    /\ img \in StackedVolumes
    /\ mean_called = FALSE /\ mean_arg = NoVolume /\ mean_res = NoVolume
    /\ maj_called = FALSE /\ maj_arg = NoVolume /\ maj_res = NoVolume

\* res = DirectionMerger.mean_fusion(threshold, img, probs)
CallMeanFusion ==
    /\ pc = "fusion" /\ ~mean_called
    /\ mean_called' = TRUE
    /\ mean_arg' = img
    /\ mean_res' = mean_fusion(threshold, img, probs)
    /\ UNCHANGED <<runner_vars, threshold, probs, img, maj_called, maj_arg, maj_res>>

\* res = DirectionMerger.majority_fusion(threshold, img, probs); img is written in place
CallMajorityFusion ==
    /\ pc = "fusion" /\ ~maj_called
    /\ maj_called' = TRUE
    /\ maj_arg' = img
    /\ img' = majority_binarize(threshold, img)
    /\ maj_res' = majority_fusion(threshold, img, probs)
    /\ UNCHANGED <<runner_vars, threshold, probs, mean_called, mean_arg, mean_res>>

NextFusion == CallMeanFusion \/ CallMajorityFusion

SpecFusion == InitFusion /\ [][NextFusion]_vars

(* ======================= properties of the reducers ==================== *)
Votes(arg, i, t) == Cardinality({d \in 1..3 : GE(At(arg, i, d), t)})

Sum3(arg, i) == RatAdd(RatAdd(At(arg, i, 1), At(arg, i, 2)), At(arg, i, 3))

\* mean of the three values >= t, stated as sum >= 3 t
MeanAtLeast(arg, i, t) == GE(Sum3(arg, i), Rat(3 * t.num, t.den))

Unanimous(arg, i, t) == Votes(arg, i, t) = 3 \/ Votes(arg, i, t) = 0

DirSlice(arg, d) ==
    [shape |-> SubSeq(arg.shape, 1, 4), flat |-> [i \in 1..NVox(arg) |-> At(arg, i, d)]]

Stack3(p) ==
    LET r == reshape(p, p.shape \o <<1>>).val IN concatenate(r, r, r).val

\* C1: majority_fusion returns only 0/1, and 1 exactly where at least two of the
\* three per-direction values are >= threshold, for every threshold and every
\* value of the third parameter.
C1_MajorityTwoOfThree ==
    maj_called =>
        \A i \in 1..NVox(maj_arg) :
            /\ maj_res.flat[i] \in {Zero, One}
            /\ (maj_res.flat[i] = One) <=> (Votes(maj_arg, i, threshold) >= 2)

\* C2: mean_fusion with probs=False returns only 0/1, and 1 exactly where the
\* arithmetic mean of the three per-direction values is >= threshold.
C2_MeanBinarized ==
    (mean_called /\ ~probs) =>
        \A i \in 1..NVox(mean_arg) :
            /\ mean_res.flat[i] \in {Zero, One}
            /\ (mean_res.flat[i] = One) <=> MeanAtLeast(mean_arg, i, threshold)

C9_MajorityBinarizesInPlace ==
    maj_called =>
        /\ img.shape = maj_arg.shape
        /\ \A k \in 1..Len(maj_arg.flat) :
              img.flat[k] = IF GE(maj_arg.flat[k], threshold) THEN One ELSE Zero

C3_OrderAndLastLabel ==
    /\ Len(calls) - Len(returned) \in {0, 1}
    /\ pc = "done" =>
          /\ [i \in 1..Len(calls) |-> calls[i].direction] = <<"x", "y", "z">>
          /\ Len(returned) = 3
          /\ ret_label = returned[3]

\* C3 witness: a completed run in which the x and y labels both differ from the
\* z label that is returned.
C3_Witness ==
    /\ pc = "done"
    /\ returned[1] # returned[3] /\ returned[2] # returned[3]
    /\ ret_label = returned[3]

\* C4: the run fails, returning no stacked volume, whenever the three
\* per-direction volumes do not all have the same shape.
C4_ShapeMismatchFails ==
    (Len(prob_slices) = 3 /\ pc # "stack"
       /\ \E i, j \in 1..3 : prob_slices[i].shape # prob_slices[j].shape) =>
        /\ pc = "failed"
        /\ ret_probs = NoVolume

\* C5: once the inference collaborator has raised for a direction, the run has
\* failed with exactly that error, the failing invocation is the last one (each
\* direction was invoked at most once, in order), and nothing is returned.
C5_InferenceFailureAborts ==
    raised # "" =>
        /\ pc = "failed"
        /\ error = raised
        /\ Len(calls) = Len(returned) + 1
        /\ \A i \in 1..Len(calls) : calls[i].direction = directions[i]
        /\ ret_probs = NoVolume /\ ret_label = 0

\* C5 witness: the collaborator raised for y after x had returned.
C5_Witness ==
    /\ raised # "" /\ pc = "failed" /\ error = raised
    /\ Len(calls) = 2 /\ calls[2].direction = "y" /\ Len(returned) = 1

\* C6: the runner writes no field of the configuration other than the slice
\* direction; at each inference invocation the field equals the direction being
\* processed, and after normal completion it is "z".
C6_OnlySliceDirectionWritten ==
    /\ HP = [HP_before EXCEPT !.SLICE_DIRECTION = HP.SLICE_DIRECTION]
    /\ \A i \in 1..Len(calls) : calls[i].hp_dir = calls[i].direction
    /\ pc = "done" => HP.SLICE_DIRECTION = "z"

\* C6 witness: a completed run whose configuration started with direction "x".
C6_Witness ==
    /\ pc = "done" /\ Len(calls) = 3
    /\ HP_before.SLICE_DIRECTION = "x" /\ HP.SLICE_DIRECTION = "z"

\* an identifier is supplied when the argument is neither None nor empty
SubjectSupplied == subject # PyNone /\ subject # ""

DataSupplied == data # PyNone

\* C8: with both a subject identifier and data supplied every direction uses the
\* by-identifier accessor; with no subject identifier every direction uses the
\* by-data accessor; the only errors are the collaborator's and the stacking one.
C8_SameAccessorEveryDirection ==
    /\ \A i \in 1..Len(calls) :
          /\ (SubjectSupplied /\ DataSupplied) =>
                 calls[i].accessor = "DataManagerSingleSubjectById"
          /\ ~SubjectSupplied => calls[i].accessor = "DataManagerSingleSubjectByFile"
    /\ error # "" => (error = raised \/ error = "ValueError")
    /\ (pc = "done" /\ ((SubjectSupplied /\ DataSupplied) \/ ~SubjectSupplied)) => Len(calls) = 3

\* C8 witness: a completed run given both a subject identifier and data.
C8_Witness ==
    /\ pc = "done" /\ SubjectSupplied /\ DataSupplied
    /\ \A i \in 1..3 : calls[i].accessor = "DataManagerSingleSubjectById"

====
